---- MODULE Spec2Model ----
(***************************************************************************)
(* SPT-Server-Manager (src/src/main.rs): the process supervisor            *)
(* (ServerManager), the command router (main's `for message in cmd_rx`     *)
(* loop), the input thread that classifies operator lines, the stream      *)
(* piper threads, and the child processes the supervisor spawns.           *)
(*                                                                         *)
(* Text is a sequence of one-character strings, so that trim() and         *)
(* Path::parent() are computed, not assumed.                               *)
(***************************************************************************)
EXTENDS Integers, Sequences, FiniteSets, TLC

\* ------------------------------------------------------------------ bounds

\* Operator lines the input thread reads at its `> ` prompt in one run.
MaxReads ==
  2

\* Children the machine lets the program spawn in one run; past it spawn fails.
MaxSpawns ==
  2

\* How many direct calls of ServerManager's methods a caller makes.
MaxCalls ==
  3

\* Lines the stdin pipe of a child holds before a write to it blocks.
PipeCap ==
  1

\* ------------------------------------------------------------------- text

Empty ==
  <<>>

help ==
  <<"h", "e", "l", "p">>

exit ==
  <<"e", "x", "i", "t">>

restart ==
  <<"r", "e", "s", "t", "a", "r", "t">>

setpath ==
  <<"s", "e", "t", "p", "a", "t", "h">>

NL ==
  <<"\n">>

\* b"exit\n", the line stop_server writes to the child's stdin.
ExitLine ==
  exit \o NL

Reserved ==
  {help, exit, restart, setpath}

\* char::is_whitespace, restricted to the characters the inputs use.
IsWhitespace(c) ==
  c \in {" ", "\t", "\n", "\r"}

SetMin(S) ==
  CHOOSE x \in S : \A y \in S : x <= y

SetMax(S) ==
  CHOOSE x \in S : \A y \in S : x >= y

\* str::trim: the slice without leading and trailing whitespace.
Trim(s) ==
  LET keep == {i \in 1..Len(s) : ~IsWhitespace(s[i])}
  IN  IF keep = {} THEN Empty ELSE SubSeq(s, SetMin(keep), SetMax(keep))

\* writeln!(stdin, "{}", command): the text and one newline.
WriteLn(command) ==
  command \o NL

\* The path without its trailing separators.
StripSlashes(p) ==
  LET keep == {i \in 1..Len(p) : p[i] # "/"}
  IN  IF keep = {} THEN Empty ELSE SubSeq(p, 1, SetMax(keep))

\* Path::parent: None for the empty path and for a root, else the path
\* without its last component.
Parent(p) ==
  LET t == StripSlashes(p)
      slashes == {i \in 1..Len(t) : t[i] = "/"}
  IN  IF t = Empty THEN [some |-> FALSE, val |-> Empty]
      ELSE IF slashes = {} THEN [some |-> TRUE, val |-> Empty]
      ELSE LET d == StripSlashes(SubSeq(t, 1, SetMax(slashes) - 1))
           IN  [some |-> TRUE, val |-> IF d = Empty THEN <<"/">> ELSE d]

\* ------------------------------------------------------------ environment

PathA ==
  <<"/", "a", "/", "s">>

PathB ==
  <<"/", "b", "/", "t">>

PathX ==
  <<"/", "x">>

\* The files of the machine that spawn() can execute.
Executables ==
  {PathA, PathB}

\* The server path main resolves before constructing the ServerManager.
InitPaths ==
  {PathA, PathX, Empty}

\* What the operator may type at the `> ` prompt (read_line keeps the "\n").
Lines ==
  { help \o NL,
    <<" ">> \o exit \o <<" ">> \o NL,
    restart \o NL,
    setpath \o NL,
    <<"E">> \o Tail(exit) \o NL,
    <<"f", "o", "o", " ", "b", "a", "r">> \o NL }

\* What the operator may type when setpath asks for the new path.
PathLines ==
  { <<" ">> \o PathB \o <<" ">> \o NL,
    PathX \o NL,
    NL }

\* ------------------------------------------------------------------ state

VARIABLES
  server_path,      \* ServerManager.server_path
  server_dir,       \* ServerManager.server_dir
  current_process,  \* ServerManager.current_process: 0 is None, else the pid
  process,          \* stop_server's local `process` while it sleeps, 0 if none
  procs,            \* the children spawned so far, indexed by pid
  cmd,              \* the mpsc channel cmd_tx -> cmd_rx
  todo,             \* what is left of the handler the main thread is in
  message,          \* the CommandMessage the router is handling
  main_pc,          \* where main is: startup, loop, join, or how it ended
  input_pc,         \* where the input thread is
  new_path,         \* the input thread's local new_path
  reads,            \* lines read at the `> ` prompt so far
  sent,             \* messages sent on the channel so far
  received,         \* messages the router has received so far
  result,           \* what the last send_command returned
  log,              \* the last line the main thread printed
  last_spawn,       \* the last Command::spawn: path, dir, outcome
  taken,            \* the child this handler's stop_server took, and whether its stdin pipe was open
  requested         \* the path last handed to ServerManager::new

sup == <<server_path, server_dir, current_process>>

vars == <<server_path, server_dir, current_process, process, procs, cmd, todo,
          message, main_pc, input_pc, new_path, reads, sent, received,
          result, log, last_spawn, taken, requested>>

\* ----------------------------------------------------------------- values

\* A CommandMessage; seq is its position in the order the input thread sent it.
Msg(kind, arg, seq) ==
  [kind |-> kind, arg |-> arg, seq |-> seq]

Op(op, arg) ==
  [op |-> op, arg |-> arg]

NoMessage ==
  Msg("None", Empty, 0)

NoSpawn ==
  [path |-> Empty, dir |-> Empty, ok |-> FALSE]

NoTaken ==
  [pid |-> 0, open |-> FALSE]

Last(s) ==
  s[Len(s)]

\* A freshly spawned child: stdin, stdout and stderr piped.
NewChild(path, dir) ==
  [ alive   |-> TRUE,       \* the OS process has not exited
    reaped  |-> FALSE,      \* its exit status has been collected
    in_open |-> TRUE,       \* the child still reads its end of the stdin pipe
    input   |-> <<>>,       \* the lines written into its stdin pipe
    unread  |-> 0,          \* how many of them the child has not read yet
    stdin   |-> TRUE,       \* Child.stdin is Some
    stdout  |-> "held",     \* Child.stdout: held, piping, eof, error
    stderr  |-> "held",     \* Child.stderr: held, piping, eof, error
    path    |-> path,
    dir     |-> dir ]

Live ==
  {p \in 1..Len(procs) : procs[p].alive}

\* A write to the child's stdin pipe lands iff the child still reads it.
PipeOpen(p) ==
  procs[p].alive /\ procs[p].in_open

\* A write to an open pipe blocks while the pipe is full.
PipeFull(p) ==
  PipeOpen(p) /\ procs[p].unread >= PipeCap

\* The children after one line has been written into the stdin pipe of p.
PipeWrite(p, line) ==
  [procs EXCEPT ![p].input = Append(@, line), ![p].unread = @ + 1]

\* ------------------------------------------------------------------- init

\* main up to `ServerManager::new(&server_path)`: the path is resolved, no
\* child exists, the channel and the input thread are not created yet.
Init ==
  /\ \E p \in InitPaths :
       /\ todo = <<Op("new", p), Op("stop", Empty), Op("spawn", Empty),
                   Op("pipe", Empty), Op("loop", Empty)>>
       /\ requested = p
  /\ server_path = Empty
  /\ server_dir = Empty
  /\ current_process = 0
  /\ process = 0
  /\ procs = <<>>
  /\ cmd = <<>>
  /\ message = NoMessage
  /\ main_pc = "startup"
  /\ input_pc = "unborn"
  /\ new_path = Empty
  /\ reads = 0
  /\ sent = 0
  /\ received = 0
  /\ result = "None"
  /\ log = "None"
  /\ last_spawn = NoSpawn
  /\ taken = NoTaken

\* ------------------------------------------------------- the main thread

\* The main thread is executing the step `op` of a handler.
At(op) ==
  /\ main_pc \in {"startup", "loop"}
  /\ todo # <<>>
  /\ Head(todo).op = op

\* stop_server without the write of the exit line.
WriteExit_Skipped(p) ==
  procs

\* stop_server's `let _ = stdin.write_all(b"exit\n")`: the children after it.
WriteExit(p) ==
  IF procs[p].stdin /\ PipeOpen(p)
  THEN PipeWrite(p, ExitLine)
  ELSE procs

\* A stop_server that reads the handle and leaves it in place.
Take_LeavesHandle(h) ==
  [value |-> h, left |-> h]

\* Option::take on current_process: the value taken and what is left.
Take(h) ==
  [value |-> h, left |-> 0]

\* stop_server up to the end of its sleep: take the handle, write the exit
\* line (the write waits for room in a full pipe), sleep for the grace
\* period.  With no handle it is a no-op.
stop_server ==
  /\ At("stop")
  /\ IF current_process = 0
     THEN /\ todo' = Tail(todo)
          /\ UNCHANGED <<current_process, process, procs, taken>>
     ELSE /\ ~(procs[current_process].stdin /\ PipeFull(current_process))
          /\ process' = Take(current_process).value
          /\ current_process' = Take(current_process).left
          /\ procs' = WriteExit(current_process)
          /\ taken' = [pid |-> current_process,
                       open |-> procs[current_process].stdin /\ PipeOpen(current_process)]
          /\ todo' = <<Op("try_wait", Empty)>> \o Tail(todo)
  /\ UNCHANGED <<server_path, server_dir, cmd, message, main_pc, input_pc,
                 new_path, reads, sent, received, result, log, last_spawn, requested>>

\* What process.try_wait() and the kill() after it can come to for child p:
\* Ok(Some(status)) when it has exited; Ok(None) when it still runs, and then
\* the kill either ends it or fails (its result is dropped by `let _ =`);
\* Err(e) in either case.
TryWaitOutcomes(p) ==
  (IF procs[p].alive THEN {"running", "unkillable"} ELSE {"exited"}) \cup {"error"}

\* The children after stop_server's match on try_wait's outcome o.
AfterTryWait(p, o) ==
  CASE o = "exited"     -> [procs EXCEPT ![p].reaped = TRUE]
    [] o = "running"    -> [procs EXCEPT ![p].alive = FALSE, ![p].in_open = FALSE,
                                         ![p].unread = 0, ![p].reaped = TRUE]
    [] o = "unkillable" -> procs
    [] o = "error"      -> procs

StopLog(o) ==
  CASE o = "exited"     -> "Server stopped gracefully"
    [] o = "running"    -> "Server stopped forcefully"
    [] o = "unkillable" -> log
    [] o = "error"      -> "Error while stopping server"

stop_server_try_wait_Blocking ==
  /\ At("try_wait")
  /\ ~procs[process].alive
  /\ \E o \in TryWaitOutcomes(process) :
       /\ procs' = AfterTryWait(process, o)
       /\ log' = StopLog(o)
       /\ process' = 0
       /\ todo' = Tail(todo)
  /\ UNCHANGED <<server_path, server_dir, current_process, cmd, message, main_pc,
                 input_pc, new_path, reads, sent, received, result,
                 last_spawn, taken, requested>>

\* stop_server from the end of its sleep: poll, kill and reap if still
\* running, log; the local `process` is dropped on return.  When the kill
\* does not end the child, process.wait() is still to return.
stop_server_try_wait ==
  /\ At("try_wait")
  /\ \E o \in TryWaitOutcomes(process) :
       /\ procs' = AfterTryWait(process, o)
       /\ log' = StopLog(o)
       /\ process' = IF o = "unkillable" THEN process ELSE 0
       /\ todo' = IF o = "unkillable"
                  THEN <<Op("wait", Empty)>> \o Tail(todo)
                  ELSE Tail(todo)
  /\ UNCHANGED <<server_path, server_dir, current_process, cmd, message, main_pc,
                 input_pc, new_path, reads, sent, received, result,
                 last_spawn, taken, requested>>

\* stop_server's process.wait() after a kill that did not end the child: it
\* returns when the child has exited.
stop_server_wait ==
  /\ At("wait")
  /\ ~procs[process].alive
  /\ procs' = [procs EXCEPT ![process].reaped = TRUE]
  /\ log' = "Server stopped forcefully"
  /\ process' = 0
  /\ todo' = Tail(todo)
  /\ UNCHANGED <<server_path, server_dir, current_process, cmd, message, main_pc,
                 input_pc, new_path, reads, sent, received, result,
                 last_spawn, taken, requested>>

\* A new(path) that rebinds the path and keeps the old working directory.
NewManager_StaleDir(path, dir) ==
  [server_path |-> path, server_dir |-> server_dir, current_process |-> 0]

\* The ServerManager that new(path) returns for a path with parent dir.
NewManager(path, dir) ==
  [server_path |-> path, server_dir |-> dir, current_process |-> 0]

\* ServerManager::new(path): the fields of the new manager, or exit(1) when
\* the path has no parent.
ServerManager_new ==
  /\ At("new")
  /\ LET path == Head(todo).arg
         dir  == Parent(path)
     IN  IF dir.some
         THEN /\ server_path' = NewManager(path, dir.val).server_path
              /\ server_dir' = NewManager(path, dir.val).server_dir
              /\ current_process' = NewManager(path, dir.val).current_process
              /\ todo' = Tail(todo)
              /\ UNCHANGED <<main_pc, log>>
         ELSE /\ main_pc' = "exit1"
              /\ log' = "Invalid server path provided."
              /\ todo' = <<>>
              /\ UNCHANGED <<server_path, server_dir, current_process, requested>>
  /\ UNCHANGED <<process, procs, cmd, message, input_pc, new_path, reads,
                 sent, received, result, last_spawn, taken, requested>>

\* The directories of the machine.
Dirs ==
  {Parent(p).val : p \in Executables}

\* Command::new(path).current_dir(dir).spawn(): it can succeed only for an
\* executable in an existing directory, and can fail for any.
SpawnOutcomes(path, dir) ==
  IF path \in Executables /\ dir \in Dirs /\ Len(procs) < MaxSpawns
  THEN {TRUE, FALSE}
  ELSE {FALSE}

\* The line the caller of start_server prints when it returns Err.
StartFailedLog ==
  CASE main_pc = "startup"                -> "Failed to start server"
    [] message.kind = "RestartServer"     -> "Failed to restart server"
    [] message.kind = "UpdateServerPath"  -> "Failed to start server with new path"
    [] OTHER                              -> "Failed to start server"

AfterSpawnFailure_AlwaysFatal(pc) ==
  "start_failed"

\* Where main goes when start_server returned Err: out of the program at the
\* first launch, on with the router loop in a handler.
AfterSpawnFailure(pc) ==
  IF pc = "startup" THEN "start_failed" ELSE pc

\* start_server after its stop_server: spawn, and on success keep the child.
\* On failure the caller logs and skips pipe_output; at startup main returns.
start_server ==
  /\ At("spawn")
  /\ \E ok \in SpawnOutcomes(server_path, server_dir) :
       /\ last_spawn' = [path |-> server_path, dir |-> server_dir, ok |-> ok]
       /\ IF ok
          THEN /\ procs' = Append(procs, NewChild(server_path, server_dir))
               /\ current_process' = Len(procs) + 1
               /\ log' = "Server started with PID"
               /\ todo' = Tail(todo)
               /\ UNCHANGED main_pc
          ELSE /\ log' = StartFailedLog
               /\ todo' = <<>>
               /\ main_pc' = AfterSpawnFailure(main_pc)
               /\ UNCHANGED <<procs, current_process>>
  /\ UNCHANGED <<server_path, server_dir, process, cmd, message, input_pc,
                 new_path, reads, sent, received, result, taken, requested>>

\* Option::take on a stream of the child, and the piper thread it is given to.
TakeStream_Retakes(s) ==
  "piping"

TakeStream(s) ==
  IF s = "held" THEN "piping" ELSE s

\* pipe_output: take stdout and stderr of the current child, one piper each.
pipe_output ==
  /\ At("pipe")
  /\ procs' = IF current_process = 0 THEN procs
              ELSE [procs EXCEPT ![current_process].stdout = TakeStream(@),
                                 ![current_process].stderr = TakeStream(@)]
  /\ todo' = Tail(todo)
  /\ UNCHANGED <<server_path, server_dir, current_process, process, cmd, message,
                 main_pc, input_pc, new_path, reads, sent, received,
                 result, log, last_spawn, taken, requested>>

\* main after the first launch: the channel is created and the input thread
\* spawned; the router loop begins.
spawn_input_thread ==
  /\ At("loop")
  /\ main_pc' = "loop"
  /\ input_pc' = "read"
  /\ todo' = <<>>
  /\ UNCHANGED <<server_path, server_dir, current_process, process, procs, cmd,
                 message, new_path, reads, sent, received, result, log,
                 last_spawn, taken, requested>>

\* The steps of the router's match arm for a message.
Plan(m) ==
  CASE m.kind = "StartServer"      -> <<Op("stop", Empty), Op("spawn", Empty),
                                        Op("pipe", Empty)>>
    [] m.kind = "StopServer"       -> <<Op("stop", Empty)>>
    [] m.kind = "RestartServer"    -> <<Op("stop", Empty), Op("stop", Empty),
                                        Op("spawn", Empty), Op("pipe", Empty)>>
    [] m.kind = "SendCommand"      -> <<Op("send", m.arg)>>
    [] m.kind = "UpdateServerPath" -> <<Op("stop", Empty), Op("new", m.arg),
                                        Op("stop", Empty), Op("spawn", Empty),
                                        Op("pipe", Empty)>>
    [] m.kind = "Exit"             -> <<Op("stop", Empty), Op("break", Empty)>>

\* A channel that hands out the newest message first.
Recv_NewestFirst(q) ==
  [msg |-> Last(q), rest |-> SubSeq(q, 1, Len(q) - 1)]

\* The receiving end of the channel: the oldest message comes out first.
Recv(q) ==
  [msg |-> Head(q), rest |-> Tail(q)]

\* `for message in cmd_rx`: blocks until a message is there, then enters its arm.
RouterRecv ==
  /\ main_pc = "loop"
  /\ todo = <<>>
  /\ cmd # <<>>
  /\ message' = Recv(cmd).msg
  /\ cmd' = Recv(cmd).rest
  /\ todo' = Plan(Recv(cmd).msg)
  /\ received' = received + 1
  /\ taken' = NoTaken
  /\ requested' = IF Recv(cmd).msg.kind = "UpdateServerPath"
                  THEN Recv(cmd).msg.arg ELSE requested
  /\ UNCHANGED <<server_path, server_dir, current_process, process, procs, main_pc,
                 input_pc, new_path, reads, sent, result, log, last_spawn>>

\* send_command taking a write on a closed pipe for a success.
SendResult_IgnoresClosedPipe ==
  IF current_process = 0 THEN "NotConnected"
  ELSE IF ~procs[current_process].stdin THEN "BrokenPipe"
  ELSE "Ok"

\* What send_command returns: NotConnected without a handle, BrokenPipe
\* without a stdin or when the write fails on a closed pipe, else Ok.
SendResult ==
  IF current_process = 0 THEN "NotConnected"
  ELSE IF ~procs[current_process].stdin THEN "BrokenPipe"
  ELSE IF ~PipeOpen(current_process) THEN "BrokenPipe"
  ELSE "Ok"

\* send_command and the router's log of its error; the write waits for room
\* in a full pipe.
send_command ==
  /\ At("send")
  /\ SendResult = "Ok" => ~PipeFull(current_process)
  /\ result' = SendResult
  /\ procs' = IF SendResult = "Ok"
              THEN PipeWrite(current_process, WriteLn(Head(todo).arg))
              ELSE procs
  /\ log' = IF SendResult = "Ok" THEN log ELSE "Failed to send command to server"
  /\ todo' = Tail(todo)
  /\ UNCHANGED <<server_path, server_dir, current_process, process, cmd, message,
                 main_pc, input_pc, new_path, reads, sent, received,
                 last_spawn, taken, requested>>

\* The Exit arm's `break`: the router loop is over, main goes to the join.
RouterBreak ==
  /\ At("break")
  /\ main_pc' = "join"
  /\ todo' = <<>>
  /\ UNCHANGED <<server_path, server_dir, current_process, process, procs, cmd,
                 message, input_pc, new_path, reads, sent, received,
                 result, log, last_spawn, taken, requested>>

\* input_thread.join().unwrap(); Ok(())
MainJoin ==
  /\ main_pc = "join"
  /\ input_pc \in {"ended", "panicked"}
  /\ main_pc' = IF input_pc = "ended" THEN "done" ELSE "panic"
  /\ UNCHANGED <<server_path, server_dir, current_process, process, procs, cmd,
                 todo, message, input_pc, new_path, reads, sent, received,
                 result, log, last_spawn, taken, requested>>

\* ------------------------------------------------------ the input thread

\* The input thread runs from its spawn until it ends or the program does.
InputRuns ==
  main_pc \in {"loop", "join"}

\* A match that takes the reserved words in any case of their first letter.
Classify_IgnoresCase(command) ==
  LET low == [i \in 1..Len(command) |->
                CASE command[i] = "E" -> "e"
                  [] command[i] = "H" -> "h"
                  [] command[i] = "R" -> "r"
                  [] command[i] = "S" -> "s"
                  [] OTHER -> command[i]]
  IN  CASE low = help    -> "help"
        [] low = exit    -> "exit"
        [] low = restart -> "restart"
        [] low = setpath -> "setpath"
        [] OTHER         -> "send"

\* `match command.as_str()`: the arm a trimmed line falls into.
Classify(command) ==
  CASE command = help    -> "help"
    [] command = exit    -> "exit"
    [] command = restart -> "restart"
    [] command = setpath -> "setpath"
    [] OTHER             -> "send"

\* cmd_tx_clone.send(m): the channel after it.
Send(q, m) ==
  Append(q, m)

\* One turn of the input thread's loop on the line the operator typed.
InputRead(line) ==
  /\ InputRuns
  /\ input_pc = "read"
  /\ reads < MaxReads
  /\ reads' = reads + 1
  /\ LET command == Trim(line)
         arm     == Classify(command)
     IN  CASE arm = "help" ->
                UNCHANGED <<cmd, sent, input_pc>>
           [] arm = "exit" ->
                /\ cmd' = Send(cmd, Msg("Exit", Empty, sent + 1))
                /\ sent' = sent + 1
                /\ input_pc' = "ended"
           [] arm = "restart" ->
                /\ cmd' = Send(cmd, Msg("RestartServer", Empty, sent + 1))
                /\ sent' = sent + 1
                /\ UNCHANGED input_pc
           [] arm = "setpath" ->
                /\ input_pc' = "setpath_path"
                /\ UNCHANGED <<cmd, sent>>
           [] arm = "send" ->
                /\ cmd' = Send(cmd, Msg("SendCommand", command, sent + 1))
                /\ sent' = sent + 1
                /\ UNCHANGED input_pc
  /\ UNCHANGED <<server_path, server_dir, current_process, process, procs, todo,
                 message, main_pc, new_path, received, result, log,
                 last_spawn, taken, requested>>

InputThreadRead ==
  \E line \in Lines : InputRead(line)

\* read_line at the prompt returns Err: the loop breaks, nothing is sent.
InputReadError ==
  /\ InputRuns
  /\ input_pc = "read"
  /\ input_pc' = "ended"
  /\ UNCHANGED <<server_path, server_dir, current_process, process, procs, cmd,
                 todo, message, main_pc, new_path, reads, sent, received,
                 result, log, last_spawn, taken, requested>>

\* setpath: the new path is read and trimmed.
InputSetpathPath ==
  /\ InputRuns
  /\ input_pc = "setpath_path"
  /\ \E line \in PathLines : new_path' = Trim(line)
  /\ input_pc' = "setpath_remember"
  /\ UNCHANGED <<server_path, server_dir, current_process, process, procs, cmd,
                 todo, message, main_pc, reads, sent, received, result,
                 log, last_spawn, taken, requested>>

\* setpath: the answer to "remember this path?" is read (the config file it
\* may write is read by no later step of the run) and UpdateServerPath sent.
InputSetpathRemember ==
  /\ InputRuns
  /\ input_pc = "setpath_remember"
  /\ cmd' = Send(cmd, Msg("UpdateServerPath", new_path, sent + 1))
  /\ sent' = sent + 1
  /\ input_pc' = "read"
  /\ UNCHANGED <<server_path, server_dir, current_process, process, procs, todo,
                 message, main_pc, new_path, reads, received, result, log,
                 last_spawn, taken, requested>>

\* setpath: one of its two read_line(..).unwrap() panics on a read error.
InputSetpathPanic ==
  /\ InputRuns
  /\ input_pc \in {"setpath_path", "setpath_remember"}
  /\ input_pc' = "panicked"
  /\ UNCHANGED <<server_path, server_dir, current_process, process, procs, cmd,
                 todo, message, main_pc, new_path, reads, sent, received,
                 result, log, last_spawn, taken, requested>>

\* ---------------------------------------------------------- the children

ChildExit_ClearsHandle ==
  /\ \E p \in Live :
       /\ procs' = [procs EXCEPT ![p].alive = FALSE, ![p].in_open = FALSE,
                                 ![p].unread = 0]
       /\ current_process' = IF p = current_process THEN 0 ELSE current_process
  /\ UNCHANGED <<server_path, server_dir, process, cmd, todo,
                 message, main_pc, input_pc, new_path, reads, sent,
                 received, result, log, last_spawn, taken, requested>>

\* A child exits: on the exit line it read, or for its own reasons.
ChildExit ==
  /\ \E p \in Live :
       procs' = [procs EXCEPT ![p].alive = FALSE, ![p].in_open = FALSE,
                              ![p].unread = 0]
  /\ UNCHANGED <<server_path, server_dir, current_process, process, cmd, todo,
                 message, main_pc, input_pc, new_path, reads, sent,
                 received, result, log, last_spawn, taken, requested>>

\* A running child closes its standard input.  Only the child the supervisor
\* holds is followed: nothing reads the pipe of a child it has let go.
ChildCloseStdin ==
  /\ \E p \in Live \cap {current_process} :
       /\ procs[p].in_open
       /\ procs' = [procs EXCEPT ![p].in_open = FALSE, ![p].unread = 0]
  /\ UNCHANGED <<server_path, server_dir, current_process, process, cmd, todo,
                 message, main_pc, input_pc, new_path, reads, sent,
                 received, result, log, last_spawn, taken, requested>>

\* A running child reads a line from its standard input.  Only the child the
\* supervisor holds is followed: nothing is written to another one's pipe.
ChildRead ==
  /\ \E p \in Live \cap {current_process} :
       /\ procs[p].in_open
       /\ procs[p].unread > 0
       /\ procs' = [procs EXCEPT ![p].unread = @ - 1]
  /\ UNCHANGED <<server_path, server_dir, current_process, process, cmd, todo,
                 message, main_pc, input_pc, new_path, reads, sent,
                 received, result, log, last_spawn, taken, requested>>

\* ------------------------------------------------------ the stream pipers

Streams ==
  {"stdout", "stderr"}

\* The piper threads live as long as the program.
PipersRun ==
  main_pc \in {"startup", "loop", "join"}

\* pipe_stream's thread: buf_reader.lines() ends, the child's end being closed.
PiperEof ==
  /\ PipersRun
  /\ \E p \in 1..Len(procs), s \in Streams :
       /\ procs[p][s] = "piping"
       /\ ~procs[p].alive
       /\ procs' = [procs EXCEPT ![p][s] = "eof"]
  /\ UNCHANGED <<server_path, server_dir, current_process, process, cmd, todo,
                 message, main_pc, input_pc, new_path, reads, sent,
                 received, result, log, last_spawn, taken, requested>>

\* pipe_stream's thread: a line is Ok(line); it prints the line and goes on.
PiperLine ==
  /\ PipersRun
  /\ \E p \in 1..Len(procs), s \in Streams :
       /\ procs[p][s] = "piping"
       /\ procs' = [procs EXCEPT ![p][s] = "piping"]
  /\ UNCHANGED <<server_path, server_dir, current_process, process, cmd, todo,
                 message, main_pc, input_pc, new_path, reads, sent,
                 received, result, log, last_spawn, taken, requested>>

PiperReadError_EndsSibling ==
  /\ PipersRun
  /\ \E p \in 1..Len(procs), s \in Streams :
       /\ procs[p][s] = "piping"
       /\ procs' = [procs EXCEPT ![p].stdout = "error", ![p].stderr = "error"]
  /\ UNCHANGED <<server_path, server_dir, current_process, process, cmd, todo,
                 message, main_pc, input_pc, new_path, reads, sent,
                 received, result, log, last_spawn, taken, requested>>

\* pipe_stream's thread: a line is Err(e); it logs and breaks.
PiperReadError ==
  /\ PipersRun
  /\ \E p \in 1..Len(procs), s \in Streams :
       /\ procs[p][s] = "piping"
       /\ procs' = [procs EXCEPT ![p][s] = "error"]
  /\ UNCHANGED <<server_path, server_dir, current_process, process, cmd, todo,
                 message, main_pc, input_pc, new_path, reads, sent,
                 received, result, log, last_spawn, taken, requested>>

\* ---------------------------------------------------------- specification

\* The supervisor, the router, the input thread and the children.
Next ==
  \/ ServerManager_new
  \/ stop_server
  \/ stop_server_try_wait
  \/ stop_server_wait
  \/ start_server
  \/ pipe_output
  \/ spawn_input_thread
  \/ RouterRecv
  \/ send_command
  \/ RouterBreak
  \/ MainJoin
  \/ InputThreadRead
  \/ InputReadError
  \/ InputSetpathPath
  \/ InputSetpathRemember
  \/ InputSetpathPanic
  \/ ChildExit
  \/ ChildCloseStdin
  \/ ChildRead

Spec ==
  Init /\ [][Next]_vars

\* The same with the steps of the stream piper threads.
NextPipers ==
  \/ Next
  \/ PiperLine
  \/ PiperEof
  \/ PiperReadError

SpecPipers ==
  Init /\ [][NextPipers]_vars

\* The steps of the main thread: the launch, the router and its handlers.
MainThread ==
  \/ ServerManager_new
  \/ stop_server
  \/ stop_server_try_wait
  \/ stop_server_wait
  \/ start_server
  \/ pipe_output
  \/ spawn_input_thread
  \/ RouterRecv
  \/ send_command
  \/ RouterBreak
  \/ MainJoin

\* A thread that can run does run: the main thread goes on whenever its next
\* call can return, and a piper whose stream is closed sees the end of it.
\* Nothing is assumed of the operator (what is typed, and when) nor of the
\* children (whether they read, exit or close their input).
SpecFair ==
  Spec /\ WF_vars(MainThread)

SpecPipersFair ==
  SpecPipers /\ WF_vars(MainThread) /\ WF_vars(PiperEof)

\* ------------------------------------------- ServerManager called directly

\* The methods of impl ServerManager a caller holding the manager can call.
ApiCalls ==
  {"start_server", "stop_server", "pipe_output", "send_command"}

\* What one such call runs: start_server begins with its own stop_server.
ApiPlan(call) ==
  CASE call = "start_server" -> <<Op("stop", Empty), Op("spawn", Empty)>>
    [] call = "stop_server"  -> <<Op("stop", Empty)>>
    [] call = "pipe_output"  -> <<Op("pipe", Empty)>>
    [] call = "send_command" -> <<Op("send", help)>>

\* A caller invokes one method of the manager once the previous call is done.
ApiCall ==
  /\ main_pc = "loop"
  /\ todo = <<>>
  /\ received < MaxCalls
  /\ \E call \in ApiCalls :
       /\ message' = Msg(call, Empty, received + 1)
       /\ todo' = ApiPlan(call)
  /\ received' = received + 1
  /\ taken' = NoTaken
  /\ UNCHANGED <<server_path, server_dir, current_process, process, procs, cmd,
                 main_pc, input_pc, new_path, reads, sent, result, log,
                 last_spawn, requested>>

\* The manager under any sequence of calls of its methods, with the children
\* and the piper threads; nothing is typed.
NextApi ==
  \/ ServerManager_new
  \/ stop_server
  \/ stop_server_try_wait
  \/ stop_server_wait
  \/ start_server
  \/ pipe_output
  \/ spawn_input_thread
  \/ ApiCall
  \/ send_command
  \/ ChildExit
  \/ ChildCloseStdin
  \/ ChildRead
  \/ PiperLine
  \/ PiperEof
  \/ PiperReadError

SpecApi ==
  Init /\ [][NextApi]_vars

\* ------------------------------------------------------------------ claims

\* C1: at most one child spawned by the supervisor is live at any instant:
\* start_server spawns only after the previous child has exited or has been
\* killed and reaped, for every child behaviour and every outcome of the
\* status poll.
C1_AtMostOneLiveChild ==
  Cardinality(Live) <= 1

\* C2: whenever stop_server returns, current_process is None, and a child
\* that had not exited by the end of the grace period has been
\* force-terminated and reaped.
C2_StopKillsAndReaps ==
  [][(process # 0 /\ process' = 0) =>
       /\ current_process' = 0
       /\ procs[process].alive =>
            (~procs'[process].alive /\ procs'[process].reaped)]_vars

\* The input stream of the child the supervisor holds is closed: the handle
\* has no stdin, or the child no longer reads the pipe.
InputClosed ==
  current_process # 0 /\ ~(procs[current_process].stdin /\ PipeOpen(current_process))

C4_FifoOneAtATime ==
  /\ [](/\ sent = received + Len(cmd)
        /\ \A i \in 1..Len(cmd) : cmd[i].seq = received + i
        /\ received > 0 => message.seq = received)
  /\ [][received' # received =>
          /\ received' = received + 1
          /\ todo = <<>>
          /\ process = 0
          /\ message'.seq = received']_vars

\* C4's case: the router sleeps inside the stop of the first message while
\* the second waits in the channel and a stream piper has already ended.
C4_Witness ==
  /\ received = 1
  /\ Len(cmd) = 1
  /\ process # 0
  /\ \E p \in 1..Len(procs) : procs[p].stdout \in {"eof", "error"}

StopLogs ==
  {"Server stopped gracefully", "Server stopped forcefully",
   "Error while stopping server"}

C6_SpawnsAtRequestedPath ==
  [][start_server =>
       /\ last_spawn'.path = requested
       /\ last_spawn'.dir = Parent(requested).val
       /\ last_spawn'.ok =>
            /\ procs'[current_process'].path = requested
            /\ procs'[current_process'].dir = Parent(requested).val]_vars

\* C6's case: after an UpdateServerPath whose handler killed the old child and
\* whose spawn failed, a Restart tried the new path again.
C6_Witness ==
  /\ message.kind = "RestartServer"
  /\ log = "Failed to restart server"
  /\ requested = PathX
  /\ last_spawn.path = PathX
  /\ last_spawn.dir = <<"/">>
  /\ procs # <<>>
  /\ procs[1].path = PathA
  /\ procs[1].reaped

\* C7: no failure while handling a message ends the router loop or the
\* program: once a message has been received, main leaves the loop only
\* through the Exit arm.
C7_FailuresAbsorbed ==
  (received > 0 /\ main_pc # "loop") => message.kind = "Exit"

ExitTyped ==
  message.kind = "Exit" \/ \E i \in 1..Len(cmd) : cmd[i].kind = "Exit"

\* C8: once the operator has typed exit, the program ends only by handling
\* Exit: the stop has completed, the loop has been left through the Exit
\* arm, the input thread has ended without a panic, and nothing is left
\* unhandled in the channel.
C8_ExitIsHandled ==
  (ExitTyped /\ main_pc \in {"done", "exit1", "panic"}) =>
    /\ main_pc = "done"
    /\ message.kind = "Exit"
    /\ input_pc = "ended"
    /\ current_process = 0
    /\ cmd = <<>>

\* C9: stop_server with no process changes nothing but the handler's
\* position: no error, no exit line, no wait, no kill, no supervisor state;
\* and a stop that follows a stop in the same handler (Restart, and
\* start_server's own stop) always finds no process.
C9_StopIdempotent ==
  /\ [][(stop_server /\ current_process = 0) =>
          UNCHANGED <<sup, process, procs, log, result, taken, main_pc, cmd,
                      last_spawn>>]_vars
  /\ []((At("stop") /\ main_pc = "loop" /\ Len(todo) < Len(Plan(message)))
          => current_process = 0)

\* C9's case: in a Restart the first stop has stopped a child and the second
\* stop, start_server's own, is about to run.
C9_Witness ==
  /\ message.kind = "RestartServer"
  /\ At("stop")
  /\ Len(todo) = 3
  /\ taken.pid # 0

FooBar ==
  <<"f", "o", "o", " ", "b", "a", "r">>

\* What each line of Lines must lead to: the message enqueued ("none" when
\* none is) and where the input thread goes.
C10_Expected(line) ==
  CASE line = <<"h", "e", "l", "p", "\n">> ->
         [kind |-> "none", arg |-> <<>>, pc |-> "read"]
    [] line = <<" ", "e", "x", "i", "t", " ", "\n">> ->
         [kind |-> "Exit", arg |-> <<>>, pc |-> "ended"]
    [] line = <<"r", "e", "s", "t", "a", "r", "t", "\n">> ->
         [kind |-> "RestartServer", arg |-> <<>>, pc |-> "read"]
    [] line = <<"s", "e", "t", "p", "a", "t", "h", "\n">> ->
         [kind |-> "none", arg |-> <<>>, pc |-> "setpath_path"]
    [] line = <<"E", "x", "i", "t", "\n">> ->
         [kind |-> "SendCommand", arg |-> <<"E", "x", "i", "t">>, pc |-> "read"]
    [] line = <<"f", "o", "o", " ", "b", "a", "r", "\n">> ->
         [kind |-> "SendCommand", arg |-> FooBar, pc |-> "read"]

\* C10: a line is classified by exact, case-sensitive match after trimming:
\* help enqueues nothing, exit one Exit and ends the loop, restart one
\* RestartServer, setpath one UpdateServerPath (after its prompts), any other
\* line one SendCommand with the trimmed text; no reserved word is ever sent
\* as SendCommand; and foo bar sent to a running process arrives on its input
\* as exactly that line and a newline.
C10_Classification ==
  /\ [][\A line \in Lines : InputRead(line) =>
          LET e == C10_Expected(line)
          IN  /\ input_pc' = e.pc
              /\ e.kind = "none" => cmd' = cmd
              /\ e.kind # "none" =>
                   /\ Len(cmd') = Len(cmd) + 1
                   /\ SubSeq(cmd', 1, Len(cmd)) = cmd
                   /\ Last(cmd').kind = e.kind
                   /\ Last(cmd').arg = e.arg]_vars
  /\ [][InputSetpathRemember =>
          /\ Len(cmd') = Len(cmd) + 1
          /\ SubSeq(cmd', 1, Len(cmd)) = cmd
          /\ Last(cmd').kind = "UpdateServerPath"
          /\ Last(cmd').arg = new_path]_vars
  /\ [](/\ \A i \in 1..Len(cmd) :
             cmd[i].kind = "SendCommand" => cmd[i].arg \notin Reserved
        /\ message.kind = "SendCommand" => message.arg \notin Reserved)
  /\ [][(send_command /\ Head(todo).arg = FooBar /\ current_process # 0) =>
          (PipeOpen(current_process) =>
             procs'[current_process].input =
               Append(procs[current_process].input,
                      <<"f", "o", "o", " ", "b", "a", "r", "\n">>))]_vars

\* C10's case: the operator typed foo bar while a process ran, and the line
\* arrived on that process's input.
C10_Witness ==
  /\ message.kind = "SendCommand"
  /\ message.arg = FooBar
  /\ result = "Ok"
  /\ current_process # 0
  /\ procs[current_process].input # <<>>
  /\ Last(procs[current_process].input) = <<"f", "o", "o", " ", "b", "a", "r", "\n">>

\* C11: a failed spawn ends the program only at the first launch, and then
\* the input thread was never spawned and the router never received; in a
\* RestartServer or UpdateServerPath handler it leaves the router in its loop
\* with no handle, no new child and the handler finished; a RestartServer
\* handled with no handle stops nothing and, when its spawn succeeds, holds a
\* new running child whose streams are not yet taken.
C11_SpawnFailureFatalOnlyAtStartup ==
  /\ [](main_pc = "start_failed" =>
         /\ input_pc = "unborn"
         /\ received = 0 /\ sent = 0 /\ cmd = <<>>
         /\ procs = <<>> /\ current_process = 0)
  /\ [][(start_server /\ ~last_spawn'.ok) =>
         /\ main_pc' = (IF main_pc = "startup" THEN "start_failed" ELSE "loop")
         /\ current_process' = 0
         /\ procs' = procs
         /\ todo' = <<>>]_vars
  /\ [][(start_server /\ last_spawn'.ok /\ message.kind = "RestartServer"
           /\ taken.pid = 0) =>
         /\ current_process' = Len(procs) + 1
         /\ current_process' \notin DOMAIN procs
         /\ \A p \in DOMAIN procs : procs'[p] = procs[p]
         /\ procs'[current_process'].alive
         /\ procs'[current_process'].stdout = "held"
         /\ procs'[current_process'].stderr = "held"]_vars

\* C11's case: the first RestartServer stopped the child and failed to spawn,
\* the router went on, and the second RestartServer, with nothing to stop,
\* spawned the second child.
C11_Witness ==
  /\ main_pc = "loop"
  /\ received = 2
  /\ message.kind = "RestartServer"
  /\ taken.pid = 0
  /\ todo = <<>>
  /\ Len(procs) = 2
  /\ current_process = 2
  /\ procs[2].alive
  /\ ~procs[1].alive

\* C12: a stream of a child is taken at most once: it goes to a piper only
\* from the state in which the child still holds it, only in pipe_output on
\* the current child, and is never given back, so a child gets at most one
\* piper per stream; pipe_output with no handle changes nothing.
C12_StreamsTakenOnce ==
  /\ [][\A p \in DOMAIN procs : \A s \in Streams :
          /\ procs[p][s] # "held" => procs'[p][s] # "held"
          /\ (procs'[p][s] = "piping" /\ procs[p][s] # "piping") =>
               /\ procs[p][s] = "held"
               /\ pipe_output
               /\ p = current_process]_vars
  /\ [][(pipe_output /\ current_process = 0) =>
          UNCHANGED <<server_path, server_dir, current_process, process, procs,
                      cmd, message, main_pc, input_pc, new_path, reads, sent,
                      received, result, log, last_spawn, taken,
                      requested>>]_vars

\* C12's case: pipe_output was called again on the first child, which the
\* first launch had piped already; its stdout piper had ended on a read error
\* and was not started again.
C12_Witness ==
  /\ message.kind = "pipe_output"
  /\ todo = <<>>
  /\ current_process = 1
  /\ procs[1].alive
  /\ procs[1].stdout = "error"
  /\ procs[1].stderr = "piping"

\* C13: the manager's state changes only in a step of the main thread; a
\* step of the input thread leaves the handle, the path, the directory and
\* the children as they are; a piper that ends changes its own stream's state
\* and nothing else: not the other stream of the child, not the manager.
C13_OnlyRouterMutatesManager ==
  /\ [][sup' # sup => (todo' # todo /\ input_pc' = input_pc
                         /\ reads' = reads /\ sent' = sent)]_vars
  /\ [][(input_pc # "unborn" /\ <<input_pc, reads, sent, new_path>>' #
                                  <<input_pc, reads, sent, new_path>>) =>
          UNCHANGED <<server_path, server_dir, current_process, process, procs,
                      todo, message, main_pc>>]_vars
  /\ [][\A p \in DOMAIN procs : \A s \in Streams :
          (procs[p][s] = "piping" /\ procs'[p][s] \in {"eof", "error"}) =>
            /\ procs' = [procs EXCEPT ![p][s] = procs'[p][s]]
            /\ UNCHANGED <<server_path, server_dir, current_process, process,
                           cmd, todo, message, main_pc, input_pc, reads, sent,
                           received, result, log>>]_vars

\* C13's case: the input thread has sent a message, and the stdout piper of
\* the current child has ended on a read error while its stderr piper and
\* the handle are as before.
C13_Witness ==
  /\ sent >= 1
  /\ current_process # 0
  /\ procs[current_process].alive
  /\ procs[current_process].stdout = "error"
  /\ procs[current_process].stderr = "piping"
  /\ server_path = procs[current_process].path

\* The supervisor has let go of child p: stop_server has returned for it.
Released(p) ==
  /\ p \in DOMAIN procs
  /\ p # current_process
  /\ p # process

\* No piper of child p is still reading; the pipers end with the program.
PipersEnded(p) ==
  \/ ~PipersRun
  \/ /\ p \in DOMAIN procs
     /\ \A s \in Streams : procs[p][s] # "piping"

\* C14: once stop_server has returned for a child, each piper started for it
\* eventually ends, whichever arm of the try_wait match was taken.
C14_PipersEnd ==
  \A p \in 1..MaxSpawns : [](Released(p) => <>PipersEnded(p))

Terminated ==
  main_pc \in {"done", "start_failed", "exit1", "panic"}

\* What C16 says of the channel short of the program's end: every message
\* sent has been received once or is still queued, in sending order, and an
\* Exit is the last message sent.
C16_QueuedOrReceivedOnce ==
  /\ sent = received + Len(cmd)
  /\ \A i \in DOMAIN cmd :
       /\ cmd[i].seq = received + i
       /\ cmd[i].kind = "Exit" => (i = Len(cmd) /\ input_pc = "ended")

\* C16: every message sent is received exactly once, and none is left in the
\* channel when the program has ended.
C16_ConsumedExactlyOnce ==
  /\ C16_QueuedOrReceivedOnce
  /\ Terminated => cmd = <<>>

\* C17 as stated: the handle is present exactly when a child is running, and
\* the handle's stdin exactly when that child runs with its input open.
C17_HandleIffRunning ==
  /\ current_process # 0 <=> Live # {}
  /\ current_process # 0 => current_process \in Live
  /\ current_process # 0 =>
       (procs[current_process].stdin <=> PipeOpen(current_process))

\* C17, amended: the handle tells what the supervisor has spawned and not yet
\* stopped, not whether the child runs.  A present handle is the child
\* spawned last, not reaped and never sent the exit line, with its stdin
\* handle present, and no stop is in progress; a present handle is cleared
\* by stop_server alone, so it outlives a child that exits on its own.
C17_HandleIsLastSpawnedUnstopped ==
  /\ [](current_process # 0 =>
          /\ current_process = Len(procs)
          /\ process = 0
          /\ procs[current_process].stdin
          /\ ~procs[current_process].reaped
          /\ ExitLine \notin
               {procs[current_process].input[i] :
                  i \in DOMAIN procs[current_process].input})
  /\ [][(current_process # 0 /\ current_process' # current_process) =>
          (stop_server /\ current_process' = 0
             /\ process' = current_process)]_vars

\* C17's case: the child exited on its own and the handle, with its stdin,
\* is still present while the router waits for the next message.
C17_Witness ==
  /\ main_pc = "loop"
  /\ todo = <<>>
  /\ current_process # 0
  /\ procs[current_process].stdin
  /\ ~procs[current_process].alive
  /\ ~procs[current_process].reaped

\* C18: in a stop_server that took a handle the exit line is in the pipe, if
\* the pipe was open, before the poll; a child found exited is not killed and
\* the stop is logged as graceful; a child still running at the poll is
\* dead and reaped when stop_server returns, logged as stopped forcefully.
C18_StopOrder ==
  /\ [](At("try_wait") =>
          /\ process # 0 /\ taken.pid = process
          /\ taken.open => Last(procs[process].input) = ExitLine)
  /\ [][stop_server_try_wait =>
          IF procs[process].alive
          THEN process' = 0 =>
                 /\ ~procs'[process].alive
                 /\ procs'[process].reaped
                 /\ log' = "Server stopped forcefully"
          ELSE /\ process' = 0
               /\ procs'[process].reaped
               /\ log' = "Server stopped gracefully"]_vars
  /\ [][stop_server_wait =>
          /\ process' = 0
          /\ ~procs'[process].alive
          /\ procs'[process].reaped
          /\ log' = "Server stopped forcefully"]_vars

\* The input thread is gone: it broke out of its loop or panicked.
InputOver ==
  input_pc \in {"ended", "panicked"}

\* C19: once the input thread is gone the router is never left waiting on an
\* empty channel: with nothing queued and nobody to send, it has left its
\* loop.  In such a state no step of the main thread is possible any more.
C19_RouterNotStranded ==
  ~(InputOver /\ main_pc = "loop" /\ todo = <<>> /\ cmd = <<>>)

\* The router is inside a handler.
Handling ==
  main_pc = "loop" /\ todo # <<>>

\* C20 as stated: a handler the router has begun eventually returns (or the
\* program ends), whatever the child does.
C20_HandlersReturn ==
  [](Handling => <>(~Handling))

\* The router waits in process.wait() for a child the kill did not end.
BlockedInWait ==
  At("wait") /\ procs[process].alive

\* The router waits in a write to the full stdin pipe of the child it holds.
BlockedInWrite ==
  /\ At("send") \/ At("stop")
  /\ current_process # 0
  /\ procs[current_process].stdin
  /\ PipeFull(current_process)

\* C20, amended: inside a handler the next call of the main thread can
\* return, except a write to the stdin pipe of a running child that is full
\* because the child does not read, and the wait() for a child that the
\* kill did not end; those two block the router until the child reads,
\* closes its input or exits.
C20_BlockedOnlyOnChild ==
  Handling => (ENABLED MainThread \/ BlockedInWrite \/ BlockedInWait)

\* C20's case: the router is in send_command, blocked in the write to the
\* full pipe of a running child that has not read the previous line.
C20_Witness ==
  /\ Handling
  /\ At("send")
  /\ BlockedInWrite
  /\ ~ENABLED MainThread
  /\ message.kind = "SendCommand"

====
